---------------------------- MODULE Spec2Model ----------------------------
(***************************************************************************)
(* LN2 tape test stand: the run coordinator of QD_ui.py                    *)
(* (start_measurement, read_data, stop_measurement) and the source         *)
(* controller of TDK_PSU_Control.py (program_current_wave_sequence,        *)
(* trigger_PSU, abort_PSU).                                                *)
(*                                                                         *)
(* Processes: the Tk main thread (Main), which runs the button callbacks   *)
(* one at a time, and one acquisition thread per run (thread r belongs to  *)
(* the r-th press of Start).  Tk widget calls are plain assignments.       *)
(*                                                                         *)
(* Numbers: a decimal field of an instrument line is an integer count of   *)
(* 1e-4 (so "1.0003" is 10003); a derived current is an integer count of   *)
(* mA; a waveform value is a fraction <<n, d>>, d > 0.                     *)
(***************************************************************************)
EXTENDS Integers, Sequences, FiniteSets, TLC

(* ------------------------------ bounds --------------------------------- *)
MaxRuns == 1        \* presses of Start
MaxStops == 1       \* presses of Stop
MaxRestartRuns == 2  \* presses of Start where a run is started again
MaxRestartStops == 2 \* presses of Stop there
MaxReads == 5       \* inst.read() calls, all threads together
MaxTime == 2        \* clock readings 0..MaxTime, in seconds
MaxFeed == 5        \* length of a stub instrument's line sequence
MaxEntry == 6       \* the entries hold 1..MaxEntry, or their defaults

(* ------------------------- program constants --------------------------- *)
ERROR_LIMIT == 3    \* `if error > 3`
GRACE == 1          \* `qd_time + 1 < time.time()`
DECIMATION == 15    \* `if i%15 == 0`
PREROLL == 10000    \* the 1 of `float(t_str) - 1`, in 1e-4 s
TWI_BIT == 3
SSA_BIT == 6

Main == 0
Threads == 1..MaxRestartRuns
Procs == {Main} \cup Threads


(* ------------------------ instrument lines ----------------------------- *)
(* A line is what data.split(",") yields: a sequence of fields.  A field   *)
(* is a decimal literal float() accepts (numeric, value num) or text it    *)
(* rejects (txt).  NoLine is inst.read() raising instead of returning.     *)
Num(x) == [numeric |-> TRUE, num |-> x, txt |-> ""]
Txt(s) == [numeric |-> FALSE, num |-> 0, txt |-> s]
QD == <<Txt("QD")>>
Garbage == <<Txt("garbage")>>
Data1 == <<Num(10003), Num(11)>>
Data2 == <<Num(25000), Num(12)>>
NoLine == <<>>
ReadOutcomes == {Data1, QD, Garbage, NoLine}   \* what a read may give (Spec)
FeedLines == {Data1, Data2, QD}                \* what a stub may hold (SpecAcq)

IsNumeric(field) == field.numeric

(* round(x, 3) of a current x given in 1e-4 A, as a count of mA: the       *)
(* nearest multiple of 1e-3, a tie going to the even one.                  *)
Round3(x) ==
    LET q == x \div 10
        r == x % 10
    IN  IF r < 5 THEN q
        ELSE IF r > 5 THEN q + 1
        ELSE IF q % 2 = 0 THEN q ELSE q + 1

(* round((float(t_str) - 1) * float(ramprate_var.get()), 3) *)
DerivedCurrent(t, ramp) == Round3((t - PREROLL) * ramp)

(* ------------------------------ waveform ------------------------------- *)
One == <<1, 1>>
Zero == <<0, 1>>
Quot(a, b) == <<a, b>>                       \* a / b, b > 0
RatEq(x, y) == x[1] * y[2] = y[1] * x[2]
RatPos(x) == x[1] * x[2] > 0

(* WaveformSteps with the ramp time taken as ramp rate / max current *)
WaveformStepsInverted(maxcurrent, ramprate) ==
    << <<Zero, One>>,
       <<Zero, One>>,
       <<Quot(maxcurrent, 1), Quot(ramprate, maxcurrent)>>,
       <<Quot(maxcurrent, 1), One>>,
       <<Zero, Quot(ramprate, maxcurrent)>>,
       <<Zero, One>> >>

(* the list `steps` of start_measurement: <<I_target, T_ramp>> *)
WaveformSteps(maxcurrent, ramprate) ==
    << <<Zero, One>>,
       <<Zero, One>>,
       <<Quot(maxcurrent, 1), Quot(maxcurrent, ramprate)>>,
       <<Quot(maxcurrent, 1), One>>,
       <<Zero, Quot(maxcurrent, ramprate)>>,
       <<Zero, One>> >>

RECURSIVE Pow10(_)
Pow10(e) == IF e = 0 THEN 1 ELSE 10 * Pow10(e - 1)

RoundHalfEven(n, d) ==
    LET q == n \div d
        r == n % d
    IN  IF 2 * r < d THEN q
        ELSE IF 2 * r > d THEN q + 1
        ELSE IF q % 2 = 0 THEN q ELSE q + 1

RECURSIVE SigExp(_, _, _)
SigExp(n, d, e) == IF n * Pow10(e) >= 100000 * d THEN e ELSE SigExp(n, d, e + 1)

(* f"{v:.6g}" for 0 <= v < 1e6: v to six significant digits *)
Fmt6g(x) ==
    IF x[1] = 0 THEN Zero
    ELSE LET e == SigExp(x[1], x[2], 0)
         IN  <<RoundHalfEven(x[1] * Pow10(e), x[2]), Pow10(e)>>

Cmd(c) == [cmd |-> c, arg |-> <<>>]
CmdArg(c, a) == [cmd |-> c, arg |-> a]

(* ProgramCommands with lines 165-166 live: *TRG sent at the end *)
ProgramCommandsFiring(steps, counter_inf, counter, trigger_delay, continuous_init, store_cell) ==
    << Cmd("SYST:LANG SCPI"), Cmd("*CLS"), Cmd("OUTPut:TTLTrg:MODE OFF"),
       Cmd("ABOR"), Cmd("CURR:LEV 0"), Cmd("SOUR:CURR:MODE WAVE"),
       CmdArg("PROG:WAVE:CURR", [k \in 1..Len(steps) |-> Fmt6g(steps[k][1])]),
       CmdArg("PROG:WAVE:TIME", [k \in 1..Len(steps) |-> Fmt6g(steps[k][2])]),
       Cmd("PROG:STEP AUTO"), CmdArg("PROG:COUN", <<counter>>),
       Cmd("TRIG:SOUR BUS"), CmdArg("TRIG:DEL", <<Fmt6g(trigger_delay)>>),
       Cmd("INIT:CONT OFF"), Cmd("OUTP ON"), Cmd("INIT"),
       Cmd("OUTPut:TTLTrg:MODE FSTR"), Cmd("*TRG") >>

(* the scpi_write calls of program_current_wave_sequence, in order *)
ProgramCommands(steps, counter_inf, counter, trigger_delay, continuous_init, store_cell) ==
    LET curr_points == [k \in 1..Len(steps) |-> steps[k][1]]
        time_points == [k \in 1..Len(steps) |-> steps[k][2]]
    IN  << Cmd("SYST:LANG SCPI"),
           Cmd("*CLS"),
           Cmd("OUTPut:TTLTrg:MODE OFF"),
           Cmd("ABOR"),
           Cmd("CURR:LEV 0"),
           Cmd("SOUR:CURR:MODE WAVE"),
           CmdArg("PROG:WAVE:CURR", [k \in 1..Len(steps) |-> Fmt6g(curr_points[k])]),
           CmdArg("PROG:WAVE:TIME", [k \in 1..Len(steps) |-> Fmt6g(time_points[k])]),
           Cmd("PROG:STEP AUTO") >>
        \o (IF counter_inf THEN <<Cmd("PROG:COUN INF")>>
            ELSE <<CmdArg("PROG:COUN", <<counter>>)>>)
        \o (IF store_cell # <<>> THEN <<CmdArg("PROG:STOR", store_cell)>> ELSE <<>>)
        \o << Cmd("TRIG:SOUR BUS"),
              CmdArg("TRIG:DEL", <<Fmt6g(trigger_delay)>>),
              Cmd(IF continuous_init THEN "INIT:CONT ON" ELSE "INIT:CONT OFF"),
              Cmd("OUTP ON"),
              Cmd("INIT"),
              Cmd("OUTPut:TTLTrg:MODE FSTR") >>

(* the scpi_write calls of trigger_PSU and of abort_PSU *)
TriggerCommands == <<"SYST:LANG SCPI", "*TRG">>
AbortCommands == <<"ABOR", "OUTP OFF", "*TRG">>

(* (val >> n) & 1 *)
bit(val, n) == (val \div (2 ^ n)) % 2

Range(s) == {s[k] : k \in 1..Len(s)}

(* ------------------------------- state --------------------------------- *)
VARIABLES
    pc,                  \* where each process is; Main: which callback line
    measurement_running, \* the global flag of QD_ui.py
    start_button,        \* "normal", "disabled" or "active"
    stop_button,         \* "disabled" or "normal"
    ramprate_var,        \* the entries, as numbers
    maxcurrent_var,
    inst,                \* the global `inst`: session r, 0 while undefined
    inst_closed,         \* the sessions that were closed
    file,                \* the globals `file`, `csv_writer`: file r, 0 while undefined
    file_closed,         \* the files that were closed
    log,                 \* log[r]: the rows read_data wrote to file r
    thread_readdata,     \* the global `thread_readdata`: thread r, 0 while undefined
    th,                  \* th[t]: the locals i, qd, qd_time, error of thread t
    currents,            \* the display buffers
    voltages,
    now,                 \* time.time()
    steps,               \* the local `steps` of start_measurement
    prog_cmds,           \* what program_current_wave_sequence wrote on its connection
    status,              \* its local `status`, the reply to STAT:OPER:COND?
    errq,                \* how its check_error_queue ended
    abort_rec,           \* abort_rec[p]: the latest abort_PSU call made by p
    trig_calls,          \* trig_calls[r]: calls of trigger_PSU in run r
    aborted,             \* the runs for which abort_PSU was called
    feed,                \* the line sequence of a stub instrument (SpecAcq)
    nruns, nstops, nreads,
    runs_allowed,        \* how many presses of Start and of Stop are followed
    stops_allowed

vars == <<pc, measurement_running, start_button, stop_button, ramprate_var,
          maxcurrent_var, inst, inst_closed, file, file_closed, log,
          thread_readdata, th, currents, voltages, now, steps, prog_cmds,
          status, errq, abort_rec, trig_calls, aborted, feed,
          nruns, nstops, nreads, runs_allowed, stops_allowed>>

ui_vars == <<start_button, stop_button>>
cfg_vars == <<ramprate_var, maxcurrent_var>>
res_vars == <<inst, inst_closed, file, file_closed>>
disp_vars == <<currents, voltages>>
prog_vars == <<steps, prog_cmds, status, errq>>
count_vars == <<nruns, nstops, nreads>>
limit_vars == <<runs_allowed, stops_allowed>>

(* i=0; qd = 0; qd_time = 0; error = 0.  consec and self_term are history:  *)
(* the failed iterations in a row, and how the thread itself ended the run. *)
Locals0 == [i |-> 0, qd |-> 0, qd_time |-> 0, error |-> 0,
            consec |-> 0, self_term |-> "no"]

NoAbort == [called |-> FALSE, outcome |-> "", sent |-> <<>>, raised |-> FALSE]

Alive(t) == t # 0 /\ pc[t] \notin {"none", "done", "dead"}

(* th when process p moves to `to`: the locals of a thread that has ended  *)
(* are gone, what it did to the run stays on record                        *)
Ended(p, to) ==
    IF p # Main /\ to \in {"done", "dead"}
    THEN [th EXCEPT ![p] = [Locals0 EXCEPT !.self_term = th[p].self_term]]
    ELSE th

(* the module-level state of QD_ui.py when mainloop() starts *)
Loaded ==
    /\ pc = [p \in Procs |-> IF p = Main THEN "idle" ELSE "none"]
    /\ measurement_running = FALSE
    /\ start_button = "normal"
    /\ stop_button = "disabled"
    /\ inst = 0 /\ inst_closed = {}
    /\ file = 0 /\ file_closed = {}
    /\ log = [r \in Threads |-> <<>>]
    /\ thread_readdata = 0
    /\ th = [t \in Threads |-> Locals0]
    /\ currents = <<>> /\ voltages = <<>>
    /\ now = 0
    /\ steps = <<>> /\ prog_cmds = <<>> /\ status = 0 /\ errq = ""
    /\ abort_rec = [p \in Procs |-> NoAbort]
    /\ trig_calls = [r \in Threads |-> 0]
    /\ aborted = {}
    /\ nruns = 0 /\ nstops = 0 /\ nreads = 0

(* the entries hold their defaults, "20" and "500" *)
Init ==
    /\ Loaded
    /\ ramprate_var = 20
    /\ maxcurrent_var = 500
    /\ feed = <<>>
    /\ runs_allowed = MaxRuns /\ stops_allowed = MaxStops

(* --------------------------- start_measurement ------------------------- *)
(* StartPressed with the source programmed and triggered before the        *)
(* acquisition thread exists (lines 129-130 moved below line 152)          *)
StartPressedThreadLast(opened) ==
    LET r == nruns + 1
        usable == opened \/ (inst # 0 /\ inst \notin inst_closed)
    IN  /\ pc[Main] = "idle"
        /\ start_button # "disabled"
        /\ nruns < runs_allowed
        /\ nruns' = r
        /\ measurement_running' = TRUE
        /\ inst' = IF opened THEN r ELSE inst
        /\ IF usable
           THEN /\ file' = r
                /\ start_button' = "disabled"
                /\ stop_button' = "normal"
                /\ pc' = [pc EXCEPT ![Main] = "program"]
           ELSE UNCHANGED <<file, start_button, stop_button, pc>>
        /\ UNCHANGED <<cfg_vars, limit_vars, inst_closed, file_closed, log, disp_vars, now,
                       thread_readdata, th, prog_vars, abort_rec, trig_calls,
                       aborted, feed, nstops, nreads>>

(* Start pressed: lines 112-130.  opened: rm.open_resource succeeded.  If  *)
(* it failed, write_script_to_Keithley goes on to inst.write on the old    *)
(* global, which raises unless an earlier session is still open.           *)
StartPressed(opened) ==
    LET r == nruns + 1
        usable == opened \/ (inst # 0 /\ inst \notin inst_closed)
    IN  /\ pc[Main] = "idle"
        /\ start_button # "disabled"
        /\ nruns < runs_allowed
        /\ nruns' = r
        /\ measurement_running' = TRUE
        /\ inst' = IF opened THEN r ELSE inst
        /\ IF usable
           THEN /\ file' = r
                /\ start_button' = "disabled"
                /\ stop_button' = "normal"
                /\ thread_readdata' = r
                /\ th' = [th EXCEPT ![r] = Locals0]
                /\ pc' = [pc EXCEPT ![Main] = "program", ![r] = "test"]
           ELSE UNCHANGED <<file, start_button, stop_button, thread_readdata, th, pc>>
        /\ UNCHANGED <<cfg_vars, limit_vars, inst_closed, file_closed, log, disp_vars, now,
                       prog_vars, abort_rec, trig_calls, aborted, feed,
                       nstops, nreads>>

(* stat_oper_cond: the status register, or -1 for a reply that ends the call *)
(* (the socket closed, or text int() rejects)                                *)
StatusReplies == {0, 8, -1}

(* check_error_queue: "zero": code 0 arrives, after any number of non-zero  *)
(* codes; "unparsable": a first field int() rejects; "closed": the socket   *)
(* closes; "never": non-zero codes without end                              *)
ErrQueues == {"zero", "unparsable", "closed", "never"}

(* where lines 131-151 leave the callback: at line 152, back in mainloop   *)
(* after an exception, or inside check_error_queue for good                *)
ProgramEnd(connected, reply, queue) ==
    IF ~connected \/ reply < 0 \/ queue = "closed" THEN "idle"
    ELSE IF queue = "never" THEN "prog_hang"
    ELSE "trigger"

(* lines 131-151: the steps, program_current_wave_sequence, start_graph.   *)
(* connected = FALSE: socket.create_connection raises.  The locals and the *)
(* connection are gone when the callback ends.                             *)
Program(connected, reply, queue) ==
    LET s == WaveformSteps(maxcurrent_var, ramprate_var)
        end == ProgramEnd(connected, reply, queue)
    IN  /\ pc[Main] = "program"
        /\ pc' = [pc EXCEPT ![Main] = end]
        /\ IF end = "idle"
           THEN steps' = <<>> /\ prog_cmds' = <<>> /\ status' = 0 /\ errq' = ""
           ELSE /\ steps' = s
                /\ prog_cmds' = ProgramCommands(s, FALSE, 1, Zero, FALSE, <<>>)
                /\ status' = reply
                /\ errq' = queue
        /\ UNCHANGED <<measurement_running, ui_vars, cfg_vars, limit_vars, res_vars, log,
                       thread_readdata, th, disp_vars, now, abort_rec,
                       trig_calls, aborted, feed, count_vars>>

(* line 152: PSU.trigger_PSU().  The call is counted; whether it connects *)
(* changes nothing else the callback does, which ends either way.        *)
Trigger ==
    /\ pc[Main] = "trigger"
    /\ trig_calls' = [trig_calls EXCEPT ![nruns] = @ + 1]
    /\ pc' = [pc EXCEPT ![Main] = "idle"]
    /\ steps' = <<>> /\ prog_cmds' = <<>> /\ status' = 0 /\ errq' = ""
    /\ UNCHANGED <<measurement_running, ui_vars, cfg_vars, limit_vars, res_vars, log,
                   thread_readdata, th, disp_vars, now, abort_rec, aborted,
                   feed, count_vars>>

(* ---------------------------- stop_measurement ------------------------- *)
(* lines 225-226, run by process p *)
StopBegin(p) ==
    /\ measurement_running' = FALSE
    /\ start_button' = "active"
    /\ abort_rec' = [abort_rec EXCEPT ![p] = NoAbort]
    /\ pc' = [pc EXCEPT ![p] = "stop_abort"]

(* Stop pressed: the callback starts on the main thread *)
StopPressed ==
    /\ pc[Main] = "idle"
    /\ stop_button = "normal"
    /\ nstops < stops_allowed
    /\ nstops' = nstops + 1
    /\ StopBegin(Main)
    /\ UNCHANGED <<stop_button, cfg_vars, limit_vars, res_vars, log, thread_readdata, th,
                   disp_vars, now, prog_vars, trig_calls, aborted,
                   feed, nruns, nreads>>

(* read_data line 202: stop_measurement() on the acquisition thread *)
ThreadStopBegin(t) ==
    /\ pc[t] = "stop_begin"
    /\ StopBegin(t)
    /\ UNCHANGED <<stop_button, cfg_vars, limit_vars, res_vars, log, thread_readdata, th,
                   disp_vars, now, prog_vars, trig_calls, aborted,
                   feed, count_vars>>

(* abort_PSU: "ok", "refused" (create_connection raises) or "lost" (the    *)
(* connection breaks after the first write; sendall raises)                *)
AbortOutcomes == {"ok", "refused", "lost"}

AbortSent(outcome) ==
    CASE outcome = "ok" -> AbortCommands
      [] outcome = "lost" -> SubSeq(AbortCommands, 1, 1)
      [] OTHER -> <<>>

(* abort_PSU failing on an instrument that was aborted before *)
AbortRaisesOnceAborted(outcome) == outcome # "ok" \/ aborted # {}

AbortRaises(outcome) == outcome # "ok"

(* the run a stop_measurement by p is about *)
RunOf(p) == IF p = Main THEN thread_readdata ELSE p

(* where an exception in stop_measurement leaves p: Main back in mainloop, *)
(* a thread ended                                                          *)
Raised(p) == IF p = Main THEN "idle" ELSE "dead"

(* StopAbort with the abort made best-effort: a failure of abort_PSU is    *)
(* swallowed and stop_measurement goes on                                 *)
StopAbortBestEffort(p, outcome) ==
    /\ pc[p] = "stop_abort"
    /\ abort_rec' = [abort_rec EXCEPT ![p] =
                        [called |-> TRUE, outcome |-> outcome,
                         sent |-> AbortSent(outcome), raised |-> FALSE]]
    /\ aborted' = aborted \cup {RunOf(p)}
    /\ pc' = [pc EXCEPT ![p] = "stop_join"]
    /\ UNCHANGED <<measurement_running, ui_vars, cfg_vars, limit_vars, res_vars, log,
                   thread_readdata, th, disp_vars, now, prog_vars,
                   trig_calls, feed, count_vars>>

(* line 227 *)
StopAbort(p, outcome) ==
    /\ pc[p] = "stop_abort"
    /\ abort_rec' = [abort_rec EXCEPT ![p] =
                        [called |-> TRUE, outcome |-> outcome,
                         sent |-> AbortSent(outcome),
                         raised |-> AbortRaises(outcome)]]
    /\ aborted' = aborted \cup {RunOf(p)}
    /\ pc' = [pc EXCEPT ![p] = IF AbortRaises(outcome) THEN Raised(p) ELSE "stop_join"]
    /\ th' = Ended(p, IF AbortRaises(outcome) THEN Raised(p) ELSE "stop_join")
    /\ UNCHANGED <<measurement_running, ui_vars, cfg_vars, limit_vars, res_vars, log,
                   thread_readdata, disp_vars, now, prog_vars,
                   trig_calls, feed, count_vars>>

(* StopJoin without the wait: stop_measurement goes on to close the file   *)
(* and the instrument while the thread may still be in its loop            *)
StopJoinNoWait(p) ==
    /\ pc[p] = "stop_join"
    /\ pc' = [pc EXCEPT ![p] = "stop_close"]
    /\ UNCHANGED <<measurement_running, ui_vars, cfg_vars, limit_vars, res_vars, log,
                   thread_readdata, th, disp_vars, now, prog_vars, abort_rec,
                   aborted, trig_calls, feed, count_vars>>

(* lines 229-230.  join() returns once the thread has ended; a thread that *)
(* joins itself gets RuntimeError.                                         *)
StopJoin(p) ==
    /\ pc[p] = "stop_join"
    /\ Alive(thread_readdata) => thread_readdata = p
    /\ pc' = [pc EXCEPT ![p] = IF Alive(thread_readdata) THEN Raised(p) ELSE "stop_close"]
    /\ th' = Ended(p, IF Alive(thread_readdata) THEN Raised(p) ELSE "stop_close")
    /\ UNCHANGED <<measurement_running, ui_vars, cfg_vars, limit_vars, res_vars, log,
                   thread_readdata, disp_vars, now, prog_vars, abort_rec,
                   aborted, trig_calls, feed, count_vars>>

(* lines 232-244: file.close(), inst.close(), then the "Stopped" box is up *)
StopClose(p) ==
    /\ pc[p] = "stop_close"
    /\ file_closed' = file_closed \cup {file}
    /\ inst_closed' = IF inst = 0 THEN inst_closed ELSE inst_closed \cup {inst}
    /\ pc' = [pc EXCEPT ![p] = "stop_report"]
    /\ UNCHANGED <<measurement_running, ui_vars, cfg_vars, limit_vars, inst, file, log,
                   thread_readdata, th, disp_vars, now, prog_vars, abort_rec,
                   aborted, trig_calls, feed, count_vars>>

(* the box is dismissed and stop_measurement returns: Main to mainloop, a  *)
(* thread to time.sleep and the loop test                                  *)
StopReturn(p) ==
    /\ pc[p] = "stop_report"
    /\ pc' = [pc EXCEPT ![p] = IF p = Main THEN "idle" ELSE "test"]
    /\ UNCHANGED <<measurement_running, ui_vars, cfg_vars, limit_vars, res_vars, log,
                   thread_readdata, th, disp_vars, now, prog_vars, abort_rec,
                   aborted, trig_calls, feed, count_vars>>

(* ------------------------------- read_data ----------------------------- *)
(* GraceElapsed without the test of qd *)
GraceElapsedAnyQd(qd, qd_time, clock) == qd_time + GRACE < clock

(* line 194: qd == 1 and qd_time + 1 < time.time() *)
GraceElapsed(qd, qd_time, clock) == qd = 1 /\ qd_time + GRACE < clock

(* One pass through the try block, lines 170-202, for locals l, the line   *)
(* read, the clock, the ramp rate and whether the log file is open.        *)
Iteration(l, line, clock, ramp, file_open) ==
    LET i1 == l.i + 1
        read_ok == line # NoLine
        marker == read_ok /\ line = QD
        qd1 == IF marker THEN 1 ELSE l.qd
        qd_time1 == IF marker THEN clock ELSE l.qd_time
        split_ok == read_ok /\ Len(line) = 2
        conv_ok == split_ok /\ (qd1 = 0 => IsNumeric(line[1]))
        a_str == IF qd1 = 0 THEN DerivedCurrent(line[1].num, ramp) ELSE 0
        write_ok == conv_ok /\ file_open
        decim == write_ok /\ i1 % DECIMATION = 0
        ok == write_ok /\ (decim => IsNumeric(line[2]))
        error1 == IF ok THEN l.error ELSE l.error + 1
    IN  [i |-> IF decim /\ ok THEN 0 ELSE i1,
         qd |-> qd1,
         qd_time |-> qd_time1,
         error |-> error1,
         rows |-> IF write_ok THEN << <<line[1], a_str, line[2]>> >> ELSE <<>>,
         currents |-> IF decim THEN <<a_str>> ELSE <<>>,
         voltages |-> IF decim /\ ok THEN <<line[2].num>> ELSE <<>>,
         raised |-> ~ok,
         clear |-> ok /\ GraceElapsed(qd1, qd_time1, clock),
         stop |-> ~ok /\ error1 > ERROR_LIMIT]

(* `while measurement_running:` (after time.sleep(0.01)) *)
LoopTest(t) ==
    /\ pc[t] = "test"
    /\ pc' = [pc EXCEPT ![t] = IF measurement_running THEN "body" ELSE "done"]
    /\ th' = Ended(t, IF measurement_running THEN "body" ELSE "done")
    /\ UNCHANGED <<measurement_running, ui_vars, cfg_vars, limit_vars, res_vars, log,
                   thread_readdata, disp_vars, now, prog_vars, abort_rec,
                   aborted, trig_calls, feed, count_vars>>

(* the loop body on thread t, inst.read() giving `line` *)
Body(t, line) ==
    LET inst_ok == inst # 0 /\ inst \notin inst_closed
        file_ok == file # 0 /\ file \notin file_closed
        it == Iteration(th[t], line, now, ramprate_var, file_ok)
    IN  /\ pc[t] = "body"
        /\ ~inst_ok => line = NoLine
        /\ nreads' = nreads + 1
        /\ th' = [th EXCEPT ![t] =
                    [i |-> it.i, qd |-> it.qd, qd_time |-> it.qd_time,
                     error |-> it.error,
                     consec |-> IF it.raised /\ line # QD THEN @.consec + 1 ELSE 0,
                     self_term |-> IF it.clear THEN "grace"
                                   ELSE IF it.stop THEN "threshold"
                                   ELSE @.self_term]]
        /\ log' = IF it.rows # <<>> THEN [log EXCEPT ![file] = @ \o it.rows] ELSE log
        /\ currents' = currents \o it.currents
        /\ voltages' = voltages \o it.voltages
        /\ measurement_running' = IF it.clear THEN FALSE ELSE measurement_running
        /\ pc' = [pc EXCEPT ![t] = IF it.stop THEN "stop_begin" ELSE "test"]
        /\ UNCHANGED <<ui_vars, cfg_vars, limit_vars, res_vars, thread_readdata, now,
                       prog_vars, abort_rec, aborted, trig_calls, feed,
                       nruns, nstops>>

(* the same, while the instrument may still be read *)
Read(t, line) == nreads < MaxReads /\ Body(t, line)

(* --------------------------------- time -------------------------------- *)
Tick ==
    /\ now < MaxTime
    /\ now' = now + 1
    /\ UNCHANGED <<pc, measurement_running, ui_vars, cfg_vars, limit_vars, res_vars, log,
                   thread_readdata, th, disp_vars, prog_vars, abort_rec,
                   aborted, trig_calls, feed, count_vars>>

(* ----------------------------- specification --------------------------- *)
Next ==
    \/ \E opened \in BOOLEAN : StartPressed(opened)
    \/ \E connected \in BOOLEAN, reply \in StatusReplies, queue \in ErrQueues :
          Program(connected, reply, queue)
    \/ Trigger
    \/ StopPressed
    \/ \E t \in Threads : ThreadStopBegin(t)
    \/ \E p \in Procs, outcome \in AbortOutcomes : StopAbort(p, outcome)
    \/ \E p \in Procs : StopJoin(p)
    \/ \E p \in Procs : StopClose(p)
    \/ \E p \in Procs : StopReturn(p)
    \/ \E t \in Threads : LoopTest(t)
    \/ \E t \in Threads, line \in ReadOutcomes : Read(t, line)
    \/ Tick

Spec == Init /\ [][Next]_vars

(* ------------------- the waveform, for any entries --------------------- *)
(* The operator has typed positive numbers into the two entries; then      *)
(* start_measurement runs, on its own.                                     *)
Entries == 1..MaxEntry

InitWave ==
    /\ Loaded
    /\ maxcurrent_var \in Entries \cup {500}
    /\ ramprate_var \in Entries \cup {20}
    /\ feed = <<>>
    /\ runs_allowed = MaxRuns /\ stops_allowed = MaxStops

NextWave ==
    \/ \E opened \in BOOLEAN : StartPressed(opened)
    \/ \E connected \in BOOLEAN, reply \in StatusReplies, queue \in ErrQueues :
          Program(connected, reply, queue)
    \/ Trigger

SpecWave == InitWave /\ [][NextWave]_vars

(* ------------- the acquisition loop on a stub instrument --------------- *)
(* Run 1 has been started and triggered; the instrument holds the lines of *)
(* `feed`, and a read after the last of them times out.  No operator.      *)
RECURSIVE SeqsUpTo(_, _)
SeqsUpTo(S, n) ==
    IF n = 0 THEN {<<>>}
    ELSE LET shorter == SeqsUpTo(S, n - 1)
         IN  shorter \cup {Append(q, x) : q \in {z \in shorter : Len(z) = n - 1}, x \in S}

InitAcq ==
    /\ pc = [p \in Procs |-> IF p = 1 THEN "test" ELSE IF p = Main THEN "idle" ELSE "none"]
    /\ measurement_running = TRUE
    /\ start_button = "disabled"
    /\ stop_button = "normal"
    /\ ramprate_var \in {20, 3}
    /\ maxcurrent_var = 500
    /\ inst = 1 /\ inst_closed = {}
    /\ file = 1 /\ file_closed = {}
    /\ log = [r \in Threads |-> <<>>]
    /\ thread_readdata = 1
    /\ th = [t \in Threads |-> Locals0]
    /\ currents = <<>> /\ voltages = <<>>
    /\ now = 0
    /\ steps = <<>> /\ prog_cmds = <<>> /\ status = 0 /\ errq = ""
    /\ abort_rec = [p \in Procs |-> NoAbort]
    /\ trig_calls = [r \in Threads |-> IF r = 1 THEN 1 ELSE 0]
    /\ aborted = {}
    /\ nruns = 1 /\ nstops = 0 /\ nreads = 0
    /\ feed \in SeqsUpTo(FeedLines, MaxFeed)
    /\ runs_allowed = MaxRuns /\ stops_allowed = MaxStops

StubLine == IF nreads < Len(feed) THEN feed[nreads + 1] ELSE NoLine

NextAcq ==
    \/ LoopTest(1)
    \/ Body(1, StubLine)
    \/ ThreadStopBegin(1)
    \/ \E outcome \in AbortOutcomes : StopAbort(1, outcome)
    \/ StopJoin(1)
    \/ Tick

SpecAcq == InitAcq /\ [][NextAcq]_vars

(* ------------- lines with a field that is not a number ----------------- *)
(* The same loop on a stub instrument whose lines have two fields, one of  *)
(* them not a number, or are markers.                                      *)
BadVoltage == <<Num(10003), Txt("abc")>>
BadTime == <<Txt("abc"), Num(11)>>
ClassifyLines == {BadVoltage, BadTime, QD}

InitClassify ==
    /\ pc = [p \in Procs |-> IF p = 1 THEN "test" ELSE IF p = Main THEN "idle" ELSE "none"]
    /\ measurement_running = TRUE
    /\ start_button = "disabled"
    /\ stop_button = "normal"
    /\ ramprate_var = 20
    /\ maxcurrent_var = 500
    /\ inst = 1 /\ inst_closed = {}
    /\ file = 1 /\ file_closed = {}
    /\ log = [r \in Threads |-> <<>>]
    /\ thread_readdata = 1
    /\ th = [t \in Threads |-> Locals0]
    /\ currents = <<>> /\ voltages = <<>>
    /\ now = 0
    /\ steps = <<>> /\ prog_cmds = <<>> /\ status = 0 /\ errq = ""
    /\ abort_rec = [p \in Procs |-> NoAbort]
    /\ trig_calls = [r \in Threads |-> IF r = 1 THEN 1 ELSE 0]
    /\ aborted = {}
    /\ nruns = 1 /\ nstops = 0 /\ nreads = 0
    /\ feed \in SeqsUpTo(ClassifyLines, MaxFeed)
    /\ runs_allowed = MaxRuns /\ stops_allowed = MaxStops

SpecClassify == InitClassify /\ [][NextAcq]_vars

(* --------------------- a run started again ----------------------------- *)
(* The operator presses Start and Stop up to MaxRestartRuns and            *)
(* MaxRestartStops times.  The meter is healthy: while its session is open *)
(* every read gives a data line, so no thread gets to the error threshold; *)
(* the power supply may be unreachable at any call.                        *)
InitRestart ==
    /\ Loaded
    /\ ramprate_var = 20
    /\ maxcurrent_var = 500
    /\ feed = <<>>
    /\ runs_allowed = MaxRestartRuns /\ stops_allowed = MaxRestartStops

MeterLine == IF inst # 0 /\ inst \notin inst_closed THEN Data1 ELSE NoLine

NextRestart ==
    \/ StartPressed(TRUE)
    \/ \E connected \in BOOLEAN : Program(connected, 8, "zero")
    \/ Trigger
    \/ StopPressed
    \/ \E p \in Procs, outcome \in {"ok", "refused"} : StopAbort(p, outcome)
    \/ \E p \in Procs : StopJoin(p)
    \/ \E p \in Procs : StopClose(p)
    \/ \E p \in Procs : StopReturn(p)
    \/ \E t \in Threads : LoopTest(t)
    \/ \E t \in Threads : Read(t, MeterLine)

SpecRestart == InitRestart /\ [][NextRestart]_vars

(* ========================== properties ================================= *)
(* nothing is left for the program to do by itself: the main thread is in  *)
(* mainloop and no acquisition thread is left                              *)
Quiescent == pc[Main] = "idle" /\ \A u \in Threads : ~Alive(u)

(* the rows a sequence of data lines and markers should give *)
RECURSIVE RowsOf(_, _, _)
RowsOf(lines, seen, ramp) ==
    IF lines = <<>> THEN <<>>
    ELSE LET l == Head(lines)
         IN  IF l = QD THEN RowsOf(Tail(lines), TRUE, ramp)
             ELSE << <<l[1], IF seen THEN 0 ELSE Round3((l[1].num - 10000) * ramp), l[2]>> >>
                  \o RowsOf(Tail(lines), seen, ramp)


(* C1: in every run, trigger_PSU is called at most once, and never before  *)
(* the run's acquisition thread has been started.                          *)
C1_TriggerOnceAfterThreadStart ==
    /\ \A r \in Threads : trig_calls[r] <= 1
    /\ \A r \in Threads : trig_calls[r] > 0 => pc[r] # "none"
    /\ pc[Main] = "trigger" => pc[nruns] # "none"

C1_Witness == trig_calls[1] = 1 /\ pc[1] # "none"

(* C2: whenever a stop_measurement shows "Stopped", the abort_PSU call of   *)
(* that stop_measurement has sent OUTP OFF.                                 *)
C2_OutputOffBeforeReport ==
    \A p \in Procs :
        pc[p] = "stop_report" =>
            abort_rec[p].called /\ "OUTP OFF" \in Range(abort_rec[p].sent)

C2_Witness == pc[Main] = "stop_report" /\ "OUTP OFF" \in Range(abort_rec[Main].sent)

(* C3: when read_data has ended the run itself (grace period or error       *)
(* threshold) and every step the program takes on its own has been taken    *)
(* (the main thread is back in mainloop, no thread is left), abort_PSU has  *)
(* been called for that run.                                                *)
C3_AbortFollowsSelfTermination ==
    \A t \in Threads :
        (th[t].self_term # "no" /\ trig_calls[t] > 0 /\ Quiescent) => t \in aborted

(* C4: an iteration of read_data that ends with a quench marker read and    *)
(* more than the grace period gone since it clears measurement_running (or  *)
(* enters stop_measurement, which does), whatever line the iteration read.  *)
C4_GraceEndsLoopOnAnyIteration ==
    [][\A t \in Threads :
          (/\ pc[t] = "body"
           /\ pc'[t] # "body"
           /\ th'[t].qd = 1
           /\ th'[t].qd_time + 1 < now')
          => (~measurement_running' \/ pc'[t] = "stop_begin")]_vars

(* C5: a thread that has had three failed iterations in a row (malformed    *)
(* line or read error) is not in the loop any more: no fourth read.         *)
C5_ThreeFailuresEndLoop ==
    \A t \in Threads : th[t].consec >= 3 => pc[t] \notin {"test", "body"}

(* C6: once the loop on the stub instrument is over, and not for the grace  *)
(* period, the log holds one row per data line of the input and none per    *)
(* marker, in input order, with current round((t - 1) * ramp_rate, 3)       *)
(* before the first marker and 0 after it.                                  *)
C6_OneRowPerDataLine ==
    pc[1] = "dead" => log[1] = RowsOf(feed, FALSE, ramprate_var)

(* C7: read_data ends the run itself only after a quench marker (grace      *)
(* period) or past the error threshold; a loop that has read no marker and  *)
(* is not past the threshold sees measurement_running False, and ends, only *)
(* after the operator's Stop (or another thread's stop).                    *)
C7_NoSelfTerminationWithoutCause ==
    \A t \in Threads :
        LET others == nstops > 0 \/ \E u \in Threads \ {t} : th[u].self_term # "no"
        IN  /\ (Alive(t) /\ th[t].self_term = "grace") => th[t].qd = 1
            /\ pc[t] \in {"stop_begin", "stop_abort", "stop_join"} => th[t].error > 3
            /\ (pc[t] \in {"test", "body"} /\ th[t].self_term = "no"
                    /\ ~measurement_running) => others
            /\ (pc[t] = "done" /\ th[t].self_term = "no") => others
            /\ pc[t] = "dead" => th[t].self_term = "threshold"

C7_Witness ==
    /\ pc[1] = "done" /\ th[1].self_term = "no" /\ nstops = 1
    /\ Len(log[1]) >= 2 /\ \A k \in 1..Len(log[1]) : log[1][k][2] # 0

(* C8: program_current_wave_sequence writes no *TRG, and when it has        *)
(* returned (line 152 not yet run) trigger_PSU has not been called in the   *)
(* run: the waveform is armed (INIT sent), not started.                     *)
C8_ProgramSendsNoTrigger ==
    /\ \A k \in 1..Len(prog_cmds) : prog_cmds[k].cmd # "*TRG"
    /\ pc[Main] \in {"trigger", "prog_hang"} => trig_calls[nruns] = 0

C8_Witness ==
    /\ pc[Main] = "trigger"
    /\ \E k \in 1..Len(prog_cmds) : prog_cmds[k].cmd = "INIT"

C10_WaveformDurations ==
    steps # <<>> =>
        /\ Len(steps) = 6
        /\ \A k \in 1..6 : RatPos(steps[k][2])
        /\ \A k \in {3, 5} : steps[k][2][1] * ramprate_var = maxcurrent_var * steps[k][2][2]
        /\ \A k \in {1, 2, 4, 6} : steps[k][2][1] = steps[k][2][2]
        /\ \A k \in {3, 4} : steps[k][1][1] = maxcurrent_var * steps[k][1][2]
        /\ \A k \in {1, 2, 5, 6} : steps[k][1][1] = 0

(* 500 A at 20 A/s: 25 s *)
C10_Witness ==
    /\ steps # <<>> /\ maxcurrent_var = 500 /\ ramprate_var = 20
    /\ steps[3][2][1] = 25 * steps[3][2][2]

(* C11: when program_current_wave_sequence has raised in start_measurement  *)
(* (the callback is over, the thread of the run was started, trigger_PSU    *)
(* was not called) and the operator has not pressed Stop, the run has been  *)
(* torn down: abort_PSU was called for it, the loop is stopped, and the log *)
(* file and the instrument connection are closed.                           *)
C11_FailedProgramTearsDown ==
    (/\ pc[Main] = "idle" /\ nruns > 0 /\ nstops = 0
     /\ pc[nruns] # "none" /\ trig_calls[nruns] = 0)
    => /\ nruns \in aborted
       /\ ~measurement_running
       /\ file \in file_closed
       /\ inst \in inst_closed

(* C12: when the Stop callback is over and its abort_PSU could not connect, *)
(* the log file and the instrument connection have been closed.             *)
C12_TeardownAfterRefusedAbort ==
    (/\ pc[Main] = "idle"
     /\ abort_rec[Main].called /\ abort_rec[Main].outcome = "refused")
    => /\ file \in file_closed
       /\ inst \in inst_closed

(* C13 as stated: when stop_measurement on the main thread has called       *)
(* abort_PSU, the join is over: the acquisition thread has ended.           *)
C13_JoinBeforeAbort ==
    (pc[Main] \in {"stop_join", "stop_close", "stop_report"} /\ abort_rec[Main].called)
    => ~Alive(thread_readdata)

(* C13 amended: stop_measurement on the main thread signals stop first,     *)
(* then calls abort_PSU, then joins the acquisition thread, and closes the  *)
(* log file and the instrument only after the thread has ended.             *)
C13_AbortThenJoinThenClose ==
    /\ pc[Main] \in {"stop_abort", "stop_join", "stop_close", "stop_report"} =>
            ~measurement_running
    /\ pc[Main] \in {"stop_join", "stop_close", "stop_report"} => abort_rec[Main].called
    /\ pc[Main] \in {"stop_close", "stop_report"} => ~Alive(thread_readdata)
    /\ pc[Main] = "stop_report" => file \in file_closed /\ inst \in inst_closed

(* the thread wrote rows, the abort went out while it was in its loop, and  *)
(* the file was closed after it ended                                       *)
C13_Witness ==
    /\ pc[Main] = "stop_report" /\ abort_rec[Main].outcome = "ok"
    /\ file \in file_closed /\ pc[1] = "done" /\ Len(log[1]) >= 1

(* C15: start_measurement gets to line 152 (program_current_wave_sequence   *)
(* has returned, trigger_PSU is next) only when the status read after INIT  *)
(* had the trigger-wait bit set.                                            *)
C15_ReturnsOnlyWhenArmed ==
    pc[Main] = "trigger" => bit(status, TWI_BIT) = 1

(* C16: start_measurement does not get to line 152 when a reply to          *)
(* SYST:ERR? had no integer code.                                           *)
C16_UnparsableQueueAborts ==
    pc[Main] = "trigger" => errq # "unparsable"

(* C17: the commands program_current_wave_sequence writes (store_cell None) *)
(* are, in order, the fifteen from SYST:LANG SCPI, *CLS to OUTP ON, INIT,   *)
(* with INIT the last one written.                                          *)
C17_InitIsLastWrite ==
    prog_cmds # <<>> =>
        [k \in 1..Len(prog_cmds) |-> prog_cmds[k].cmd] =
            << "SYST:LANG SCPI", "*CLS", "OUTPut:TTLTrg:MODE OFF", "ABOR",
               "CURR:LEV 0", "SOUR:CURR:MODE WAVE", "PROG:WAVE:CURR",
               "PROG:WAVE:TIME", "PROG:STEP AUTO", "PROG:COUN", "TRIG:SOUR BUS",
               "TRIG:DEL", "INIT:CONT OFF", "OUTP ON", "INIT" >>

(* C18: an iteration of read_data that reads a marker line leaves qd = 1,   *)
(* writes no row and leaves the error count as it was.                      *)
C18_MarkerIsNotAFailure ==
    [][(pc[1] = "body" /\ pc'[1] # "body" /\ StubLine = QD)
       => /\ th'[1].qd = 1
          /\ log' = log
          /\ th'[1].error = th[1].error]_vars

(* C19: with no marker read, read_data calls stop_measurement only when the *)
(* failed iterations since the last successful one are at least three: the  *)
(* failures before a successful iteration do not count.                     *)
C19_ThresholdCountsConsecutiveFailures ==
    \A t \in Threads :
        (pc[t] = "stop_begin" /\ th[t].qd = 0) => th[t].consec >= 3

(* C20: once qd = 1, an iteration of read_data leaves qd at 1 and qd_time   *)
(* as the first marker set it.                                              *)
C20_QuenchTimeWrittenOnce ==
    [][\A t \in Threads :
          (pc[t] = "body" /\ pc'[t] # "body" /\ th[t].qd = 1)
          => (th'[t].qd = 1 /\ th'[t].qd_time = th[t].qd_time)]_vars

(* C14: an iteration of read_data (which starts with inst.read() and, for   *)
(* a data line, writes a row) runs only while neither the instrument        *)
(* session nor the log file has been closed.                                *)
C14_NoUseAfterClose ==
    [][\A t \in Threads :
          (pc[t] = "body" /\ pc'[t] # "body")
          => (inst \notin inst_closed /\ file \notin file_closed)]_vars

(* C21: start_measurement is never inside check_error_queue for good: the   *)
(* drain loop ends, with a failure when code 0 never arrives.               *)
C21_QueueDrainEnds ==
    pc[Main] # "prog_hang"

(* C23: a call of trigger_PSU in a run is not made after abort_PSU was      *)
(* called for that run.                                                     *)
C23_NoTriggerAfterAbort ==
    [][\A r \in Threads : trig_calls'[r] > trig_calls[r] => r \notin aborted]_vars

(* C24: when stop_measurement, called by read_data on its own thread with   *)
(* an abort_PSU that went through, is over, the log file and the instrument *)
(* connection are closed.                                                   *)
C24_ThreadStopClosesResources ==
    \A t \in Threads :
        (/\ th[t].self_term = "threshold" /\ ~Alive(t)
         /\ abort_rec[t].called /\ abort_rec[t].outcome = "ok")
        => (file \in file_closed /\ inst \in inst_closed)

(* C22: an iteration of read_data whose line is not the marker and is not   *)
(* two numeric fields writes no row, leaves currents and voltages as they   *)
(* were, and adds one to the error count.                                   *)
C22_UnclassifiedLineIsAnError ==
    [][(/\ pc[1] = "body" /\ pc'[1] # "body"
        /\ StubLine \notin {QD, NoLine}
        /\ ~(Len(StubLine) = 2 /\ IsNumeric(StubLine[1]) /\ IsNumeric(StubLine[2])))
       => /\ log' = log
          /\ currents' = currents /\ voltages' = voltages
          /\ th'[1].error = th[1].error + 1]_vars
=============================================================================
